---- MODULE Spec2Model ----
(***************************************************************************)
(* A model of the receive side of azure-service-bus-node:                  *)
(*   lib/core/messageReceiver.ts  (MessageReceiver)                        *)
(*   lib/clientEntityContext.ts   (ClientEntityContext)                    *)
(*                                                                         *)
(* Three specifications share the module:                                  *)
(*   SpecSettle  settleMessage / _onSettled / the disposition timeout      *)
(*   SpecMsg     _onAmqpMessage: handler, lock renewal, auto settlement    *)
(*   SpecLink    _init / detached / close and the close and error events   *)
(***************************************************************************)
EXTENDS Integers, Sequences, FiniteSets, TLC

(***************************************************************************)
(* Bounds of the model.                                                    *)
(***************************************************************************)
MaxCalls == 2

\* the clock of the message specification runs from 0 to MaxTime
MaxTime == 3

\* the lock duration the broker grants, and the auto-renew window the
\* application may configure, in clock units
LockDuration == 2

RenewWindow == 2

\* links connection.createReceiver may open, detached() invocations, and
\* the attempts retry() makes (Constants.defaultConnectionRetryAttempts)
MaxLinks == 2

MaxDetached == 2

RetryTimes == 2

\* the longest time-to-live given to an entry of the expiring map
MaxTtl == 2

\* delivery.id of the deliveries the transport hands to the receiver
DeliveryIds == {1, 2}

\* the deliveries that arrive as messages in the message specification
MsgIds == {1}

CallIds == 1..MaxCalls

(***************************************************************************)
(* Inputs of settleMessage and of the "settled" event.                     *)
(***************************************************************************)
\* enum DispositionType, and one string that is not a member of it
DispositionType == {"complete", "deadletter", "abandon", "defer"}

Operations == DispositionType \cup {"bogus"}

\* DispositionOptions: propertiesToModify?, error?
DispositionOptions ==
    { [propertiesToModify |-> "none", error |-> "none"],
      [propertiesToModify |-> "props", error |-> "none"],
      [propertiesToModify |-> "props", error |-> "amqpError"] }

NoOptions == [propertiesToModify |-> "none", error |-> "none"]

\* delivery.remote_state of a "settled" event:
\*   accepted        no state.error
\*   rejected        state.error with a condition or a description
\*   rejectedBlank   state.error present, with neither condition nor description
RemoteStates == {"accepted", "rejected", "rejectedBlank"}

VARIABLES
    calls,                   \* settleMessage invocations: call id -> promise, timer
    nCalls,                  \* number of settleMessage invocations so far
    deliveryDispositionMap,  \* _deliveryDispositionMap: delivery id -> call id, 0 = no entry
    lastSettle,              \* operation/options of the latest settleMessage and the frame it issued
    receiveMode,             \* "peekLock" | "receiveAndDelete"
    autoComplete,
    maxAutoRenewDurationInSeconds,
    autoRenewLock,
    requestResponseLockedMessages,  \* the Entity Context's ConcurrentExpiringMap
    now,                     \* Date.now()
    msg,                     \* delivery id -> the _onAmqpMessage invocation for that delivery
    receiverType,            \* "streaming" | "batching"
    receiverLink,            \* this._receiver: a link id, 0 = undefined
    links,                   \* link id -> the rhea receiver link created under that id
    nLinks,                  \* links created so far
    isConnecting,            \* LinkEntity.isConnecting
    name,                    \* this.name: the n-th unique name
    streamingReceiver,       \* context.streamingReceiver: "none" | "this" | "other"
    batchingReceiver,        \* context.batchingReceiver:  "none" | "this" | "other"
    tokenRenewalTimer,       \* LinkEntity._tokenRenewalTimer is running
    dets,                    \* detached() invocations
    nDet,                    \* detached() invocations so far
    openCall,                \* the application's _init() in flight
    closeCall,               \* the application's close() in flight
    ctxCall,                 \* the Entity Context's detached() in flight
    linkErrors,              \* the latest error event, and whether it reached _onError
    lastInit                 \* what the latest _init() call found and did

settleVars == <<calls, nCalls, deliveryDispositionMap, lastSettle>>

\* what the constructors set up; no step of the receiver changes it
configVars == <<receiveMode, autoComplete, maxAutoRenewDurationInSeconds, autoRenewLock,
               requestResponseLockedMessages>>

msgVars == <<now, msg>>

linkVars == <<receiverType, receiverLink, links, nLinks, isConnecting, name,
              streamingReceiver, batchingReceiver, tokenRenewalTimer,
              dets, nDet, openCall, closeCall, ctxCall, linkErrors, lastInit>>

vars == <<calls, nCalls, deliveryDispositionMap, lastSettle,
          receiveMode, autoComplete, maxAutoRenewDurationInSeconds, autoRenewLock,
          requestResponseLockedMessages,
          now, msg,
          receiverType, receiverLink, links, nLinks, isConnecting, name,
          streamingReceiver, batchingReceiver, tokenRenewalTimer,
          dets, nDet, openCall, closeCall, ctxCall, linkErrors, lastInit>>

NoCall ==
    [delivery |-> 0, valid |-> FALSE, origin |-> "none", promise |-> "none",
     reason |-> "none", timer |-> FALSE, settles |-> 0, issued |-> 0,
     registered |-> FALSE, timerStarted |-> FALSE, pendingBefore |-> FALSE,
     ack |-> "none", timedOut |-> FALSE]

NoFrame ==
    [kind |-> "none", undeliverable_here |-> "na", message_annotations |-> "none",
     error |-> "none"]

NoSettle == [call |-> 0, operation |-> "none", options |-> NoOptions, frame |-> NoFrame]

InitSettleVars ==
    /\ calls = [c \in CallIds |-> NoCall]
    /\ nCalls = 0
    /\ deliveryDispositionMap = [d \in DeliveryIds |-> 0]
    /\ lastSettle = NoSettle

(***************************************************************************)
(* settleMessage                                                           *)
(***************************************************************************)
\* operation.match(/^(complete|abandon|defer|deadletter)$/) != undefined
IsValidOperation(operation) ==
    operation \in {"complete", "abandon", "defer", "deadletter"}

\* A faulty settleMessage: defer is sent as abandon is, redeliverable.
DispositionFrame_DeferRedeliverable(operation, options) ==
    CASE operation = "complete" ->
            [kind |-> "accept", undeliverable_here |-> "na",
             message_annotations |-> "none", error |-> "none"]
      [] operation \in {"abandon", "defer"} ->
            [kind |-> "modified", undeliverable_here |-> "false",
             message_annotations |-> options.propertiesToModify, error |-> "none"]
      [] operation = "deadletter" ->
            [kind |-> "reject", undeliverable_here |-> "na",
             message_annotations |-> "none",
             error |-> IF options.error # "none" THEN options.error ELSE "empty"]
      [] OTHER -> NoFrame

\* The transport call settleMessage makes for a valid operation.
DispositionFrame(operation, options) ==
    CASE operation = "complete" ->
            [kind |-> "accept", undeliverable_here |-> "na",
             message_annotations |-> "none", error |-> "none"]
      [] operation = "abandon" ->
            [kind |-> "modified", undeliverable_here |-> "false",
             message_annotations |-> options.propertiesToModify, error |-> "none"]
      [] operation = "defer" ->
            [kind |-> "modified", undeliverable_here |-> "true",
             message_annotations |-> options.propertiesToModify, error |-> "none"]
      [] operation = "deadletter" ->
            [kind |-> "reject", undeliverable_here |-> "na",
             message_annotations |-> "none",
             error |-> IF options.error # "none" THEN options.error ELSE "empty"]
      [] OTHER -> NoFrame

\* A faulty settleMessage: it starts the timer and registers the record
\* before it looks at the operation.
SettleMessage_RegistersFirst(d, operation, options, origin) ==
    LET c == nCalls + 1 IN
    /\ nCalls < MaxCalls
    /\ nCalls' = c
    /\ deliveryDispositionMap' = [deliveryDispositionMap EXCEPT ![d] = c]
    /\ calls' = [calls EXCEPT ![c] =
            [NoCall EXCEPT !.delivery = d, !.valid = IsValidOperation(operation),
                           !.origin = origin,
                           !.promise = IF IsValidOperation(operation)
                                       THEN "pending" ELSE "rejected",
                           !.reason = IF IsValidOperation(operation)
                                      THEN "none" ELSE "invalidOperation",
                           !.settles = IF IsValidOperation(operation) THEN 0 ELSE 1,
                           !.timer = TRUE, !.timerStarted = TRUE, !.registered = TRUE,
                           !.issued = IF IsValidOperation(operation) THEN 1 ELSE 0,
                           !.pendingBefore = (deliveryDispositionMap[d] # 0)]]
    /\ lastSettle' = [call |-> c, operation |-> operation, options |-> options,
                      frame |-> DispositionFrame(operation, options)]

\* settleMessage(delivery, operation, options) up to the return of the
\* promise executor. origin tells the caller apart: "user" or "auto".
SettleMessage(d, operation, options, origin) ==
    LET c == nCalls + 1 IN
    /\ nCalls < MaxCalls
    /\ nCalls' = c
    /\ IF ~IsValidOperation(operation)
       THEN /\ calls' = [calls EXCEPT ![c] =
                    [NoCall EXCEPT !.delivery = d, !.origin = origin,
                                   !.promise = "rejected", !.reason = "invalidOperation",
                                   !.settles = 1,
                                   !.pendingBefore = (deliveryDispositionMap[d] # 0)]]
            /\ lastSettle' = [call |-> c, operation |-> operation, options |-> options,
                              frame |-> NoFrame]
            /\ UNCHANGED deliveryDispositionMap
       ELSE /\ calls' = [calls EXCEPT ![c] =
                    [NoCall EXCEPT !.delivery = d, !.valid = TRUE, !.origin = origin,
                                   !.promise = "pending", !.timer = TRUE,
                                   !.timerStarted = TRUE, !.registered = TRUE,
                                   !.issued = 1,
                                   !.pendingBefore = (deliveryDispositionMap[d] # 0)]]
            /\ deliveryDispositionMap' = [deliveryDispositionMap EXCEPT ![d] = c]
            /\ lastSettle' = [call |-> c, operation |-> operation, options |-> options,
                              frame |-> DispositionFrame(operation, options)]

\* The callback of the setTimeout started by call c.
DispositionTimeout(c) ==
    /\ calls[c].timer
    /\ deliveryDispositionMap' =
           [deliveryDispositionMap EXCEPT ![calls[c].delivery] = 0]
    /\ calls' = [calls EXCEPT ![c].timer = FALSE,
                              ![c].timedOut = TRUE,
                              ![c].settles = @ + 1,
                              ![c].promise = IF @ = "pending" THEN "resolved" ELSE @]
    /\ UNCHANGED <<nCalls, lastSettle>>

(***************************************************************************)
(* _onSettled: the handler of the transport's "settled" event              *)
(***************************************************************************)
\* state && state.error && (state.error.condition || state.error.description)
CarriesError(state) == state = "rejected"

\* History only: every call on delivery d whose promise is pending and whose
\* timer is still running sees the acknowledgement.
NoteAck(cs, d, settled, state) ==
    [c \in CallIds |->
        IF /\ settled
           /\ cs[c].delivery = d
           /\ cs[c].promise = "pending"
           /\ cs[c].timer
           /\ cs[c].ack = "none"
        THEN [cs[c] EXCEPT !.ack = state]
        ELSE cs[c]]

\* A faulty _onSettled: it leaves the timer of the record running.
OnSettled_KeepsTimer(d, settled, state) ==
    LET c == deliveryDispositionMap[d]
        seen == NoteAck(calls, d, settled, state)
    IN
    /\ IF settled /\ c # 0
       THEN /\ deliveryDispositionMap' = [deliveryDispositionMap EXCEPT ![d] = 0]
            /\ calls' = [seen EXCEPT
                    ![c].settles = @ + 1,
                    ![c].reason = IF seen[c].promise = "pending" /\ CarriesError(state)
                                  THEN "translated" ELSE @,
                    ![c].promise = IF @ # "pending" THEN @
                                   ELSE IF CarriesError(state) THEN "rejected"
                                   ELSE "resolved"]
       ELSE /\ calls' = seen
            /\ UNCHANGED deliveryDispositionMap
    /\ UNCHANGED <<nCalls, lastSettle>>

OnSettled(d, settled, state) ==
    LET c == deliveryDispositionMap[d]
        seen == NoteAck(calls, d, settled, state)
    IN
    /\ IF settled /\ c # 0
       THEN /\ deliveryDispositionMap' = [deliveryDispositionMap EXCEPT ![d] = 0]
            /\ calls' = [seen EXCEPT
                    ![c].timer = FALSE,
                    ![c].settles = @ + 1,
                    ![c].reason = IF seen[c].promise = "pending" /\ CarriesError(state)
                                  THEN "translated" ELSE @,
                    ![c].promise = IF @ # "pending" THEN @
                                   ELSE IF CarriesError(state) THEN "rejected"
                                   ELSE "resolved"]
       ELSE /\ calls' = seen
            /\ UNCHANGED deliveryDispositionMap
    /\ UNCHANGED <<nCalls, lastSettle>>

(***************************************************************************)
(* The link: _init, detached, close, and the transport's close and error   *)
(* events                                                                  *)
(***************************************************************************)
LinkIds == 1..MaxLinks

DetIds == 1..MaxDetached

ReceiverTypes == {"streaming", "batching"}

\* the error of a close/error event, by what translate() makes of it
ErrorKinds == {"none", "retryable", "nonRetryable"}

\* how an awaited _negotiateClaim() or createReceiver() ends
Outcomes == {"ok", "retryable", "nonRetryable"}

\* translate(err).retryable
Retryable(err) == err = "retryable"

\* a rhea-promise Receiver:
\*   open            isOpen()
\*   closed          isClosed(): this side closed the link
\*   sessionClosed   isSessionClosed(): this side closed the session
\*   remoteClosed, sessionRemoteClosed: the peer closed the link / the session
\*   appClosed (history): the local close was made by close()
\*   reopened (history): the link was established by a detached() run
NoLink ==
    [created |-> FALSE, open |-> FALSE, closed |-> FALSE, sessionClosed |-> FALSE,
     remoteClosed |-> FALSE, sessionRemoteClosed |-> FALSE, name |-> 0,
     appClosed |-> FALSE, reopened |-> FALSE]

\* one detached() invocation
\*   pc: idle -> closeLink -> (negotiate -> createReceiver | delay)* -> done
\*   receiverError, wasCloseInitiated, link: read up to line 501
\*   optionsName: the name in `options`; i: retry()'s attempts so far
\*   selfClosed (history): when the run started, this side had closed the
\*   link the receiver established last
NoDet ==
    [pc |-> "idle", receiverError |-> "none", wasCloseInitiated |-> FALSE,
     link |-> 0, i |-> 0, optionsName |-> 0, selfClosed |-> FALSE]

NoOpen == [pc |-> "idle", optionsName |-> 0]

NoClose == [pc |-> "idle", link |-> 0]

\* the Entity Context's detached(error): idle -> batching -> streaming ->
\* done
\*   present (history): when it was called, this receiver was registered in
\*   the slot of its role and was not connecting
\*   runs (history): the detached() invocations it has made on this receiver
\*   run = 0 while it awaits the detached() of another receiver
\*   outcome (history): how the latest detached() it awaited on another
\*   receiver ended
NoCtx == [pc |-> "idle", run |-> 0, error |-> "none", present |-> FALSE, runs |-> 0,
          outcome |-> "none"]

NoInit == [called |-> FALSE, wasOpen |-> FALSE, wasConnecting |-> FALSE,
           started |-> FALSE, connectingAfter |-> FALSE]

\* the error of the latest receiver_error / session_error event (none: the
\* close came without one) and whether the handler called this._onError
NoLinkError == [error |-> "none", notified |-> FALSE]

\* a detached() invocation that has returned: its locals are gone
DoneDet == [NoDet EXCEPT !.pc = "done"]

InitLinkVars ==
    /\ receiverLink = 0
    /\ links = [l \in LinkIds |-> NoLink]
    /\ nLinks = 0
    /\ isConnecting = FALSE
    /\ name = 0
    /\ tokenRenewalTimer = FALSE
    /\ dets = [p \in DetIds |-> NoDet]
    /\ nDet = 0
    /\ openCall = NoOpen
    /\ closeCall = NoClose
    /\ ctxCall = NoCtx
    /\ linkErrors = NoLinkError
    /\ lastInit = NoInit

\* the Entity Context slot of this receiver's role
OwnSlot == IF receiverType = "streaming" THEN streamingReceiver ELSE batchingReceiver

OtherSlot == IF receiverType = "streaming" THEN batchingReceiver ELSE streamingReceiver

\* isOpen(): this._receiver && this._receiver.isOpen(), over the links ls
IsOpen(ls) == receiverLink # 0 /\ ls[receiverLink].open

\* LinkEntity._closeLink(link) up to its await: the token renewal timer is
\* cleared by the caller's action; the link is closed from this side
CloseLinkStart(ls, l) ==
    IF l = 0 THEN ls
    ELSE [ls EXCEPT ![l].closed = TRUE, ![l].open = FALSE]

\* the awaited link.close() is over: the session is closed too
CloseLinkDone(ls, l) ==
    IF l = 0 THEN ls
    ELSE [ls EXCEPT ![l].sessionClosed = TRUE]

\* what an _init() call finds: the guard of line 618
InitRecord(ls, starts) ==
    [called |-> TRUE, wasOpen |-> IsOpen(ls), wasConnecting |-> isConnecting,
     started |-> starts, connectingAfter |-> (isConnecting \/ starts)]

\* a guard that does not look at the link
InitGuard_IgnoresOpen(ls) == ~isConnecting

\* a guard that looks at the link alone
InitGuard_IgnoresConnecting(ls) == ~IsOpen(ls)

\* _init(): !this.isOpen() && !this.isConnecting
InitGuard(ls) == ~IsOpen(ls) /\ ~isConnecting

\* the establishment attempts in flight: an _init between `isConnecting =
\* true` and the end of createReceiver
InFlight ==
    {p \in DetIds : dets[p].pc \in {"negotiate", "createReceiver"}}
        \cup (IF openCall.pc \in {"negotiate", "createReceiver"} THEN {0} ELSE {})

\* an establishment that registers the receiver whatever the slot holds
Established_Overwrites(linkName, reopened) ==
    /\ nLinks < MaxLinks
    /\ nLinks' = nLinks + 1
    /\ links' = [links EXCEPT ![nLinks + 1] =
           [NoLink EXCEPT !.created = TRUE, !.open = TRUE, !.name = linkName,
                          !.reopened = reopened]]
    /\ receiverLink' = nLinks + 1
    /\ isConnecting' = FALSE
    /\ IF receiverType = "streaming"
       THEN /\ streamingReceiver' = "this"
            /\ UNCHANGED batchingReceiver
       ELSE IF receiverType = "batching"
       THEN /\ batchingReceiver' = "this"
            /\ UNCHANGED streamingReceiver
       ELSE UNCHANGED <<streamingReceiver, batchingReceiver>>
    /\ tokenRenewalTimer' = TRUE

\* lines 636-651: createReceiver resolved with a new link named linkName
Established(linkName, reopened) ==
    /\ nLinks < MaxLinks
    /\ nLinks' = nLinks + 1
    /\ links' = [links EXCEPT ![nLinks + 1] =
           [NoLink EXCEPT !.created = TRUE, !.open = TRUE, !.name = linkName,
                          !.reopened = reopened]]
    /\ receiverLink' = nLinks + 1
    /\ isConnecting' = FALSE
    /\ IF receiverType = "streaming" /\ streamingReceiver = "none"
       THEN /\ streamingReceiver' = "this"
            /\ UNCHANGED batchingReceiver
       ELSE IF receiverType = "batching" /\ batchingReceiver = "none"
       THEN /\ batchingReceiver' = "this"
            /\ UNCHANGED streamingReceiver
       ELSE UNCHANGED <<streamingReceiver, batchingReceiver>>
    /\ tokenRenewalTimer' = TRUE

(***************************************************************************)
(* detached(receiverError)                                                 *)
(***************************************************************************)
\* A faulty decision: a close that comes without an error is not reopened.
ShouldReopen_OnlyOnError(receiverError, wasCloseInitiated) ==
    receiverError # "none" /\ ~wasCloseInitiated /\ Retryable(receiverError)

\* lines 475-500
ShouldReopen(receiverError, wasCloseInitiated) ==
    IF receiverError # "none" /\ ~wasCloseInitiated
    THEN Retryable(receiverError)
    ELSE ~wasCloseInitiated

\* detached(err) up to `await this._closeLink(this._receiver)`, the links
\* being ls when it is called
DetachedStart(ls, err) ==
    /\ nDet < MaxDetached
    /\ nDet' = nDet + 1
    /\ dets' = [dets EXCEPT ![nDet + 1] =
           [NoDet EXCEPT !.pc = "closeLink", !.receiverError = err,
                         !.wasCloseInitiated =
                             (receiverLink # 0 /\ ls[receiverLink].closed),
                         !.link = receiverLink,
                         !.selfClosed = (nLinks > 0 /\ ls[nLinks].closed)]]
    /\ links' = CloseLinkStart(ls, receiverLink)
    /\ tokenRenewalTimer' = FALSE

\* retry() calls operation(): _init(options) up to its first await
RetryCallsInit(p, r, ls) ==
    IF InitGuard(ls)
    THEN /\ isConnecting' = TRUE
         /\ dets' = [dets EXCEPT ![p] =
                [r EXCEPT !.pc = "negotiate"]]
         /\ lastInit' = InitRecord(ls, TRUE)
    ELSE /\ UNCHANGED isConnecting
         /\ dets' = [dets EXCEPT ![p] = DoneDet]
         /\ lastInit' = InitRecord(ls, FALSE)

\* _closeLink is over: lines 474-522 up to the first await inside _init
DetachedLinkClosed(p) ==
    /\ dets[p].pc = "closeLink"
    /\ LET ls == CloseLinkDone(links, dets[p].link)
           reopen == ShouldReopen(dets[p].receiverError, dets[p].wasCloseInitiated)
       IN /\ links' = ls
          /\ IF reopen
             THEN /\ name' = name + 1
                  /\ RetryCallsInit(p, [NoDet EXCEPT !.optionsName = name + 1], ls)
             ELSE /\ dets' = [dets EXCEPT ![p] = DoneDet]
                  /\ UNCHANGED <<name, isConnecting, lastInit>>
    /\ UNCHANGED <<receiverType, receiverLink, nLinks, streamingReceiver,
                   batchingReceiver, tokenRenewalTimer, nDet, openCall, closeCall,
                   ctxCall, linkErrors>>
    /\ UNCHANGED <<settleVars, configVars, msgVars>>

\* _init's catch (658-662) rethrows into retry(): a retryable error is
\* followed by the delay, any other ends retry() and detached()
RetryFailed(p, outcome) ==
    /\ isConnecting' = FALSE
    /\ dets' = [dets EXCEPT ![p] =
           IF Retryable(outcome) THEN [@ EXCEPT !.pc = "delay"] ELSE DoneDet]

\* the awaited _negotiateClaim() of the _init called by detached()
DetachedNegotiated(p, outcome) ==
    /\ dets[p].pc = "negotiate"
    /\ IF outcome = "ok"
       THEN /\ dets' = [dets EXCEPT ![p].pc = "createReceiver"]
            /\ UNCHANGED isConnecting
       ELSE RetryFailed(p, outcome)
    /\ UNCHANGED <<receiverType, receiverLink, links, nLinks, name, streamingReceiver,
                   batchingReceiver, tokenRenewalTimer, nDet, openCall, closeCall,
                   ctxCall, linkErrors, lastInit>>
    /\ UNCHANGED <<settleVars, configVars, msgVars>>

\* the awaited createReceiver(options) of the _init called by detached()
DetachedCreated(p, outcome) ==
    /\ dets[p].pc = "createReceiver"
    /\ IF outcome = "ok"
       THEN /\ Established(dets[p].optionsName, TRUE)
            /\ dets' = [dets EXCEPT ![p] = DoneDet]
       ELSE /\ RetryFailed(p, outcome)
            /\ UNCHANGED <<receiverLink, links, nLinks, streamingReceiver,
                           batchingReceiver, tokenRenewalTimer>>
    /\ UNCHANGED <<receiverType, name, nDet, openCall, closeCall, ctxCall,
                   linkErrors, lastInit>>
    /\ UNCHANGED <<settleVars, configVars, msgVars>>

\* A retry() that never gives up, as the comment at line 513 has it.
RetryDelayElapsed_RetriesForever(p) ==
    /\ dets[p].pc = "delay"
    /\ RetryCallsInit(p, dets[p], links)
    /\ UNCHANGED <<receiverType, receiverLink, links, nLinks, name, streamingReceiver,
                   batchingReceiver, tokenRenewalTimer, nDet, openCall, closeCall,
                   ctxCall, linkErrors>>
    /\ UNCHANGED <<settleVars, configVars, msgVars>>

\* retry()'s delay is over: the next attempt, or the last error is thrown
\* into detached()'s catch
RetryDelayElapsed(p) ==
    /\ dets[p].pc = "delay"
    /\ LET r == [dets[p] EXCEPT !.i = @ + 1]
       IN IF r.i < RetryTimes
          THEN RetryCallsInit(p, r, links)
          ELSE /\ dets' = [dets EXCEPT ![p] = DoneDet]
               /\ UNCHANGED <<isConnecting, lastInit>>
    /\ UNCHANGED <<receiverType, receiverLink, links, nLinks, name, streamingReceiver,
                   batchingReceiver, tokenRenewalTimer, nDet, openCall, closeCall,
                   ctxCall, linkErrors>>
    /\ UNCHANGED <<settleVars, configVars, msgVars>>

(***************************************************************************)
(* The transport's events: the peer closes the link or its session          *)
(***************************************************************************)
\* `this._receiver || context.receiver`
HandlerReceiver(l) == IF receiverLink # 0 THEN receiverLink ELSE l

\* a handler that does not look at receiver.isClosed()
OnAmqpError_IgnoresClosed(ls, l, err) == err # "none" /\ ~Retryable(err)

\* _onAmqpError: is the user's error handler called?
OnAmqpError(ls, l, err) ==
    /\ err # "none"
    /\ ~Retryable(err)
    /\ ~ls[HandlerReceiver(l)].closed

\* _onSessionError: is the user's error handler called?
OnSessionError(ls, l, err) ==
    /\ err # "none"
    /\ ~ls[HandlerReceiver(l)].sessionClosed
    /\ ~Retryable(err)

\* _onAmqpClose: is detached(receiverError) called?
OnAmqpClose(ls, l) ==
    /\ ~ls[HandlerReceiver(l)].closed
    /\ ~isConnecting

\* _onSessionClose: is detached(sessionError) called?
OnSessionClose(ls, l) ==
    /\ ~ls[HandlerReceiver(l)].sessionClosed
    /\ ~isConnecting

\* the handlers' effect, the links being ls after the peer's close
CloseEvent(ls, err, notify, detaches) ==
    /\ linkErrors' = [error |-> err, notified |-> notify]
    /\ IF detaches
       THEN DetachedStart(ls, err)
       ELSE /\ links' = ls
            /\ UNCHANGED <<dets, nDet, tokenRenewalTimer>>
    /\ UNCHANGED <<receiverType, receiverLink, nLinks, isConnecting, name,
                   streamingReceiver, batchingReceiver, openCall, closeCall,
                   ctxCall, lastInit>>
    /\ UNCHANGED <<settleVars, configVars, msgVars>>

\* receiver_error (if err) and receiver_close of link l, whose session the
\* peer has not ended
RemoteLinkClose(l, err) ==
    /\ links[l].created
    /\ ~links[l].remoteClosed
    /\ ~links[l].sessionRemoteClosed
    /\ LET ls == [links EXCEPT ![l].remoteClosed = TRUE, ![l].open = FALSE]
       IN CloseEvent(ls, err, OnAmqpError(ls, l, err), OnAmqpClose(ls, l))

\* session_error (if err) and session_close of link l's session
RemoteSessionClose(l, err) ==
    /\ links[l].created
    /\ ~links[l].sessionRemoteClosed
    /\ LET ls == [links EXCEPT ![l].sessionRemoteClosed = TRUE, ![l].open = FALSE]
       IN CloseEvent(ls, err, OnSessionError(ls, l, err),
                     OnSessionClose(ls, l))

(***************************************************************************)
(* The Entity Context's detached(error)                                    *)
(***************************************************************************)
\* lines 813 and 825: both blocks read entityContext.batchingReceiver
CtxCallsDetached == batchingReceiver = "this" /\ ~isConnecting

\* the slot the two blocks read holds another receiver
CtxReadsOther == batchingReceiver = "other"

\* how the awaited detached(error) of another receiver may end: its link is
\* re-established, it is not, or the promise rejects into the block's catch
OtherOutcomes == {"recovered", "failed", "threw"}

\* the call is over
CtxReturns(outcome) ==
    [ctxCall EXCEPT !.pc = "done", !.run = 0, !.error = "none", !.outcome = outcome]

\* the entity is present in the slot of its role and is not connecting
CtxPresent == OwnSlot = "this" /\ ~isConnecting

\* lines 798-817: detached(error) is called while this receiver is
\* registered; the batching block calls detached(error) on the receiver it
\* finds; without one, the block commented `streaming` reads the same slot
\* in the same turn and the call is over
CtxDetached(err) ==
    /\ ctxCall.pc = "idle"
    /\ OwnSlot = "this"
    /\ IF CtxCallsDetached
       THEN /\ DetachedStart(links, err)
            /\ ctxCall' = [NoCtx EXCEPT !.pc = "batching", !.run = nDet + 1,
                                        !.error = err, !.present = CtxPresent,
                                        !.runs = 1]
       ELSE /\ \E connecting \in BOOLEAN :
                   ctxCall' =
                       IF CtxReadsOther /\ ~connecting
                       THEN [NoCtx EXCEPT !.pc = "batching", !.error = err,
                                          !.present = CtxPresent]
                       ELSE [NoCtx EXCEPT !.pc = "done", !.present = CtxPresent]
            /\ UNCHANGED <<links, dets, nDet, tokenRenewalTimer>>
    /\ UNCHANGED <<receiverType, receiverLink, nLinks, isConnecting, name,
                   streamingReceiver, batchingReceiver, openCall, closeCall,
                   linkErrors, lastInit>>
    /\ UNCHANGED <<settleVars, configVars, msgVars>>

\* lines 817-829: the batching block's detached is over; the block commented
\* `streaming` runs
CtxBatchingDone ==
    /\ ctxCall.pc = "batching"
    /\ ctxCall.run # 0
    /\ dets[ctxCall.run].pc = "done"
    /\ IF CtxCallsDetached
       THEN /\ DetachedStart(links, ctxCall.error)
            /\ ctxCall' = [ctxCall EXCEPT !.pc = "streaming", !.run = nDet + 1,
                                          !.runs = @ + 1]
       ELSE /\ ctxCall' = [ctxCall EXCEPT !.pc = "done", !.run = 0, !.error = "none"]
            /\ UNCHANGED <<links, dets, nDet, tokenRenewalTimer>>
    /\ UNCHANGED <<receiverType, receiverLink, nLinks, isConnecting, name,
                   streamingReceiver, batchingReceiver, openCall, closeCall,
                   linkErrors, lastInit>>
    /\ UNCHANGED <<settleVars, configVars, msgVars>>

\* lines 829-835: the second detached is over
CtxStreamingDone ==
    /\ ctxCall.pc = "streaming"
    /\ ctxCall.run # 0
    /\ dets[ctxCall.run].pc = "done"
    /\ ctxCall' = [ctxCall EXCEPT !.pc = "done", !.run = 0, !.error = "none"]
    /\ UNCHANGED <<receiverType, receiverLink, links, nLinks, isConnecting, name,
                   streamingReceiver, batchingReceiver, tokenRenewalTimer, dets, nDet,
                   openCall, closeCall, linkErrors, lastInit>>
    /\ UNCHANGED <<settleVars, configVars, msgVars>>

\* lines 817-829 with another receiver in the slot: its detached(error) has
\* settled, a rejection is caught (818-821); the block commented `streaming`
\* reads the same slot and awaits that receiver's detached(error) again
CtxOtherBatchingDone(outcome) ==
    /\ ctxCall.pc = "batching"
    /\ ctxCall.run = 0
    /\ \E connecting \in BOOLEAN :
           ctxCall' =
               IF CtxReadsOther /\ ~connecting
               THEN [ctxCall EXCEPT !.pc = "streaming", !.outcome = outcome]
               ELSE CtxReturns(outcome)
    /\ UNCHANGED <<receiverType, receiverLink, links, nLinks, isConnecting, name,
                   streamingReceiver, batchingReceiver, tokenRenewalTimer, dets, nDet,
                   openCall, closeCall, linkErrors, lastInit>>
    /\ UNCHANGED <<settleVars, configVars, msgVars>>

\* lines 829-835 with another receiver in the slot: the second detached(error)
\* has settled, a rejection is caught (830-833)
CtxOtherStreamingDone(outcome) ==
    /\ ctxCall.pc = "streaming"
    /\ ctxCall.run = 0
    /\ ctxCall' = CtxReturns(outcome)
    /\ UNCHANGED <<receiverType, receiverLink, links, nLinks, isConnecting, name,
                   streamingReceiver, batchingReceiver, tokenRenewalTimer, dets, nDet,
                   openCall, closeCall, linkErrors, lastInit>>
    /\ UNCHANGED <<settleVars, configVars, msgVars>>

(***************************************************************************)
(* close() and an explicit open: _init() without options                   *)
(***************************************************************************)
\* close() up to `await this._closeLink(receiverLink)`, _deleteFromCache
\* included
Close ==
    /\ closeCall.pc = "idle"
    /\ receiverLink # 0
    /\ closeCall' = [pc |-> "closeLink", link |-> receiverLink]
    /\ receiverLink' = 0
    /\ IF receiverType = "streaming"
       THEN /\ streamingReceiver' = "none"
            /\ UNCHANGED batchingReceiver
       ELSE /\ batchingReceiver' = "none"
            /\ UNCHANGED streamingReceiver
    /\ links' = [CloseLinkStart(links, receiverLink) EXCEPT
                     ![receiverLink].appClosed = ~links[receiverLink].closed]
    /\ tokenRenewalTimer' = FALSE
    /\ UNCHANGED <<receiverType, nLinks, isConnecting, name, dets, nDet, openCall,
                   ctxCall, linkErrors, lastInit>>
    /\ UNCHANGED <<settleVars, configVars, msgVars>>

\* close()'s _closeLink is over
CloseDone ==
    /\ closeCall.pc = "closeLink"
    /\ links' = CloseLinkDone(links, closeCall.link)
    /\ closeCall' = NoClose
    /\ UNCHANGED <<receiverType, receiverLink, nLinks, isConnecting, name,
                   streamingReceiver, batchingReceiver, tokenRenewalTimer, dets, nDet,
                   openCall, ctxCall, linkErrors, lastInit>>
    /\ UNCHANGED <<settleVars, configVars, msgVars>>

\* _init() up to its first await, or all of it when the guard fails
Open ==
    /\ openCall.pc = "idle"
    /\ lastInit' = InitRecord(links, InitGuard(links))
    /\ IF InitGuard(links)
       THEN /\ isConnecting' = TRUE
            /\ openCall' = [openCall EXCEPT !.pc = "negotiate"]
       ELSE UNCHANGED <<isConnecting, openCall>>
    /\ UNCHANGED <<receiverType, receiverLink, links, nLinks, name, streamingReceiver,
                   batchingReceiver, tokenRenewalTimer, dets, nDet, closeCall, ctxCall,
                   linkErrors>>
    /\ UNCHANGED <<settleVars, configVars, msgVars>>

\* the awaited _negotiateClaim() of an explicit open; lines 623-632 make the
\* options under the receiver's present name
OpenNegotiated(outcome) ==
    /\ openCall.pc = "negotiate"
    /\ IF outcome = "ok"
       THEN /\ openCall' = [pc |-> "createReceiver", optionsName |-> name]
            /\ UNCHANGED isConnecting
       ELSE /\ openCall' = NoOpen
            /\ isConnecting' = FALSE
    /\ UNCHANGED <<receiverType, receiverLink, links, nLinks, name, streamingReceiver,
                   batchingReceiver, tokenRenewalTimer, dets, nDet, closeCall, ctxCall,
                   linkErrors, lastInit>>
    /\ UNCHANGED <<settleVars, configVars, msgVars>>

\* the awaited createReceiver(options) of an explicit open
OpenCreated(outcome) ==
    /\ openCall.pc = "createReceiver"
    /\ openCall' = NoOpen
    /\ IF outcome = "ok"
       THEN Established(openCall.optionsName, FALSE)
       ELSE /\ isConnecting' = FALSE
            /\ UNCHANGED <<receiverLink, links, nLinks, streamingReceiver,
                           batchingReceiver, tokenRenewalTimer>>
    /\ UNCHANGED <<receiverType, name, dets, nDet, closeCall, ctxCall, linkErrors,
                   lastInit>>
    /\ UNCHANGED <<settleVars, configVars, msgVars>>

(***************************************************************************)
(* The constructor: receive options                                        *)
(***************************************************************************)
ReceiveModes == {"peekLock", "receiveAndDelete"}

\* A faulty constructor: it looks at the window alone.
AutoRenewLock_IgnoresMode(mode, window) == window > 0

\* this.autoRenewLock = maxAutoRenewDurationInSeconds > 0 && receiveMode === peekLock
AutoRenewLock(mode, window) == window > 0 /\ mode = "peekLock"

Constructor ==
    /\ receiveMode \in ReceiveModes
    /\ autoComplete \in BOOLEAN
    /\ maxAutoRenewDurationInSeconds \in {-1, 0, RenewWindow}
    /\ autoRenewLock = AutoRenewLock(receiveMode, maxAutoRenewDurationInSeconds)

(***************************************************************************)
(* _onAmqpMessage                                                          *)
(*   pc: none -> handler -> (abandon | complete) -> done                   *)
(*   lastRenew (history): how the latest renewLock call ended              *)
(***************************************************************************)
NoMsg ==
    [pc |-> "none", continueExecution |-> FALSE, timer |-> -1, renewing |-> FALSE,
     lockedUntilUtc |-> 0, totalAutoLockRenewDuration |-> 0, call |-> 0,
     outcome |-> "none", renewLockCalls |-> 0, renewCallsAtDone |-> 0,
     dispositions |-> << >>, onErrorCalls |-> << >>,
     timerAtSettle |-> FALSE, lastRenew |-> "none"]

\* errors the application's handler may throw
HandlerErrors == {"lockLost", "other"}

\* translate(err).name
TranslatedName(err) ==
    IF err = "lockLost" THEN "MessageLockLostError" ELSE "Error"

\* the safety margin calculateRenewAfterDuration keeps before the lock expires
RenewMargin == 1

\* util/utils calculateRenewAfterDuration(lockedUntilUtc)
CalculateRenewAfterDuration(lockedUntilUtc) ==
    IF lockedUntilUtc - now - RenewMargin > 0
    THEN lockedUntilUtc - now - RenewMargin
    ELSE 0

\* a task that waits until the lock has expired
AutoRenewLockTask_AtExpiry(r) ==
    IF now < r.totalAutoLockRenewDuration /\ r.continueExecution
    THEN [r EXCEPT !.timer = IF r.lockedUntilUtc > now THEN r.lockedUntilUtc ELSE now]
    ELSE r

\* autoRenewLockTask() for the invocation r: schedules the next renewal
AutoRenewLockTask(r) ==
    IF now < r.totalAutoLockRenewDuration /\ r.continueExecution
    THEN [r EXCEPT !.timer = now + CalculateRenewAfterDuration(r.lockedUntilUtc)]
    ELSE r

\* A faulty clearTimerAndStopExecution: it forgets clearTimeout(timer).
ClearTimerAndStopExecution_KeepsTimer(r) ==
    IF autoRenewLock
    THEN [r EXCEPT !.continueExecution = FALSE]
    ELSE r

ClearTimerAndStopExecution(r) ==
    IF autoRenewLock
    THEN [r EXCEPT !.continueExecution = FALSE, !.timer = -1]
    ELSE r

\* ServiceBusMessage.complete() and .abandon() of the message of delivery m
MessageComplete(m) == SettleMessage(m, "complete", NoOptions, "auto")

MessageAbandon(m) == SettleMessage(m, "abandon", NoOptions, "auto")

\* handlers that may still ask for a settlement: each keeps one call free
Handlers == Cardinality({m \in MsgIds : msg[m].pc = "handler"})

\* _onAmqpMessage up to the call of the application's handler
MessageArrives(m) ==
    /\ msg[m].pc = "none"
    /\ nCalls + Handlers < MaxCalls
    /\ LET r0 == [NoMsg EXCEPT !.pc = "handler", !.lockedUntilUtc = now + LockDuration]
           r1 == IF autoRenewLock
                 THEN AutoRenewLockTask(
                        [r0 EXCEPT !.continueExecution = TRUE,
                                   !.totalAutoLockRenewDuration =
                                       now + maxAutoRenewDurationInSeconds])
                 ELSE r0
       IN msg' = [msg EXCEPT ![m] = r1]
    /\ UNCHANGED <<settleVars, configVars, linkVars, now>>

\* A faulty success path: it completes whatever autoComplete says.
HandlerReturns_IgnoresAutoComplete(m) ==
    /\ msg[m].pc = "handler"
    /\ LET r1 == [ClearTimerAndStopExecution(msg[m]) EXCEPT
                     !.outcome = "returned", !.renewCallsAtDone = msg[m].renewLockCalls]
       IN IF receiveMode = "peekLock"
          THEN /\ MessageComplete(m)
               /\ msg' = [msg EXCEPT ![m] =
                      [r1 EXCEPT !.pc = "complete", !.call = nCalls + 1,
                                 !.dispositions = Append(@, lastSettle'.frame),
                                 !.timerAtSettle = (r1.timer # -1)]]
          ELSE /\ msg' = [msg EXCEPT ![m] = [r1 EXCEPT !.pc = "done"]]
               /\ UNCHANGED settleVars
    /\ UNCHANGED <<configVars, linkVars, now>>

\* the handler's promise resolves: lines 318, 343-354 up to the await
HandlerReturns(m) ==
    /\ msg[m].pc = "handler"
    /\ LET r1 == [ClearTimerAndStopExecution(msg[m]) EXCEPT
                     !.outcome = "returned", !.renewCallsAtDone = msg[m].renewLockCalls]
       IN IF autoComplete /\ receiveMode = "peekLock"
          THEN /\ MessageComplete(m)
               /\ msg' = [msg EXCEPT ![m] =
                      [r1 EXCEPT !.pc = "complete", !.call = nCalls + 1,
                                 !.dispositions = Append(@, lastSettle'.frame),
                                 !.timerAtSettle = (r1.timer # -1)]]
          ELSE /\ msg' = [msg EXCEPT ![m] = [r1 EXCEPT !.pc = "done"]]
               /\ UNCHANGED settleVars
    /\ UNCHANGED <<configVars, linkVars, now>>

\* A faulty failure path: it falls through to the auto-complete after the
\* abandon instead of returning.
HandlerThrows_FallsThrough(m, err) ==
    /\ msg[m].pc = "handler"
    /\ LET r1 == [ClearTimerAndStopExecution(msg[m]) EXCEPT
                     !.outcome = IF err = "lockLost" THEN "lockLost" ELSE "threw",
                     !.renewCallsAtDone = msg[m].renewLockCalls]
       IN IF TranslatedName(err) # "MessageLockLostError" /\ receiveMode = "peekLock"
          THEN /\ IF autoComplete THEN MessageComplete(m) ELSE MessageAbandon(m)
               /\ msg' = [msg EXCEPT ![m] =
                      [r1 EXCEPT !.pc = IF autoComplete THEN "complete" ELSE "abandon",
                                 !.call = nCalls + 1,
                                 !.dispositions = Append(@, lastSettle'.frame),
                                 !.timerAtSettle = (r1.timer # -1)]]
          ELSE /\ msg' = [msg EXCEPT ![m] = [r1 EXCEPT !.pc = "done"]]
               /\ UNCHANGED settleVars
    /\ UNCHANGED <<configVars, linkVars, now>>

\* the handler's promise rejects with err: lines 319-330 up to the await
HandlerThrows(m, err) ==
    /\ msg[m].pc = "handler"
    /\ LET r1 == [ClearTimerAndStopExecution(msg[m]) EXCEPT
                     !.outcome = IF err = "lockLost" THEN "lockLost" ELSE "threw",
                     !.renewCallsAtDone = msg[m].renewLockCalls]
       IN IF TranslatedName(err) # "MessageLockLostError" /\ receiveMode = "peekLock"
          THEN /\ MessageAbandon(m)
               /\ msg' = [msg EXCEPT ![m] =
                      [r1 EXCEPT !.pc = "abandon", !.call = nCalls + 1,
                                 !.dispositions = Append(@, lastSettle'.frame),
                                 !.timerAtSettle = (r1.timer # -1)]]
          ELSE /\ msg' = [msg EXCEPT ![m] = [r1 EXCEPT !.pc = "done"]]
               /\ UNCHANGED settleVars
    /\ UNCHANGED <<configVars, linkVars, now>>

\* the awaited bMessage.abandon() / bMessage.complete() settles
AutoSettleReturns(m) ==
    /\ msg[m].pc \in {"abandon", "complete"}
    /\ calls[msg[m].call].promise \in {"resolved", "rejected"}
    /\ msg' = [msg EXCEPT
           ![m].pc = "done",
           ![m].onErrorCalls =
               IF calls[msg[m].call].promise = "rejected"
               THEN Append(@, IF msg[m].pc = "abandon"
                              THEN "abandonError" ELSE "completeError")
               ELSE @]
    /\ UNCHANGED <<settleVars, configVars, linkVars, now>>

\* the renewal timer's callback starts: renewLock is called
RenewTimerFires(m) ==
    /\ msg[m].timer # -1
    /\ now >= msg[m].timer
    /\ msg' = [msg EXCEPT ![m].timer = -1,
                          ![m].renewing = TRUE,
                          ![m].renewLockCalls = @ + 1]
    /\ UNCHANGED <<settleVars, configVars, linkVars, now>>

\* A faulty renewal: after a failed renewLock it tells the application and
\* tries again.
RenewLockReturns_RetriesOnFailure(m, ok) ==
    /\ msg[m].renewing
    /\ msg' = [msg EXCEPT ![m] =
           AutoRenewLockTask(
               IF ok
               THEN [msg[m] EXCEPT !.renewing = FALSE,
                                   !.lastRenew = "ok",
                                   !.lockedUntilUtc = now + LockDuration]
               ELSE [msg[m] EXCEPT !.renewing = FALSE,
                                   !.lastRenew = "failed",
                                   !.onErrorCalls = Append(@, "renewError")])]
    /\ UNCHANGED <<settleVars, configVars, linkVars, now>>

\* the awaited managementClient.renewLock(bMessage) settles
RenewLockReturns(m, ok) ==
    /\ msg[m].renewing
    /\ msg' = [msg EXCEPT ![m] =
           IF ok
           THEN AutoRenewLockTask([msg[m] EXCEPT !.renewing = FALSE,
                                                 !.lastRenew = "ok",
                                                 !.lockedUntilUtc = now + LockDuration])
           ELSE [msg[m] EXCEPT !.renewing = FALSE,
                               !.lastRenew = "failed",
                               !.onErrorCalls = Append(@, "renewError")]]
    /\ UNCHANGED <<settleVars, configVars, linkVars, now>>

Tick ==
    /\ now < MaxTime
    /\ now' = now + 1
    /\ UNCHANGED <<settleVars, configVars, linkVars, msg>>

\* no renewal timer is due: the event loop runs a due setTimeout callback
\* before the clock moves on
NoRenewalDue == \A m \in MsgIds : msg[m].timer = -1 \/ now < msg[m].timer

TimelyTick == NoRenewalDue /\ Tick

(***************************************************************************)
(* The application settles deliveries; the transport acknowledges;         *)
(* disposition timers fire.                                                *)
(***************************************************************************)
UserSettle(d, operation, options) ==
    /\ nCalls + Handlers < MaxCalls
    /\ SettleMessage(d, operation, options, "user")
    /\ UNCHANGED <<configVars, msgVars, linkVars>>

SettledEvent(d, settled, state) ==
    /\ OnSettled(d, settled, state)
    /\ UNCHANGED <<configVars, msgVars, linkVars>>

TimerFires(c) ==
    /\ DispositionTimeout(c)
    /\ UNCHANGED <<configVars, msgVars, linkVars>>

(***************************************************************************)
(* ConcurrentExpiringMap: the Entity Context's store of locked messages    *)
(*   entries   key -> the entry the map holds; its expiry is absolute      *)
(*   written   (history) key -> the latest set: its value, time and ttl    *)
(*   read      (history) the latest get/has: its key, results and time     *)
(***************************************************************************)
Keys == {1, 2}

Values == {"a", "b"}

Ttls == 1..MaxTtl

NoEntry == [present |-> FALSE, value |-> "absent", expiry |-> 0]

NoWrite == [set |-> FALSE, value |-> "absent", at |-> 0, ttl |-> 0]

NoRead == [key |-> 0, value |-> "absent", has |-> FALSE, at |-> 0, swept |-> FALSE]

NoStore ==
    [entries |-> [k \in Keys |-> NoEntry],
     written |-> [k \in Keys |-> NoWrite],
     read |-> NoRead]

\* an entry whose expiry has passed counts as absent
Live(e) == e.present /\ now < e.expiry

\* get(key) on the entries es
ExpiringMapGet(es, k) == IF Live(es[k]) THEN es[k].value ELSE "absent"

\* has(key) on the entries es
ExpiringMapHas(es, k) == Live(es[k])

\* A faulty set: an existing entry keeps the expiry it had.
ExpiringMapSet_KeepsExpiry(es, k, v, ttl) ==
    [es EXCEPT ![k] = [present |-> TRUE, value |-> v,
                       expiry |-> IF es[k].present THEN es[k].expiry ELSE now + ttl]]

\* set(key, value, ttl): inserts or overwrites; the expiry is now + ttl
ExpiringMapSet(es, k, v, ttl) ==
    [es EXCEPT ![k] = [present |-> TRUE, value |-> v, expiry |-> now + ttl]]

\* the background sweep removes the entries whose expiry has passed
ExpiringMapSweep(es) ==
    [k \in Keys |-> IF es[k].present /\ now >= es[k].expiry THEN NoEntry ELSE es[k]]

StoreSet(k, v, ttl) ==
    /\ requestResponseLockedMessages' =
           [requestResponseLockedMessages EXCEPT
                !.entries = ExpiringMapSet(@, k, v, ttl),
                !.written[k] = [set |-> TRUE, value |-> v, at |-> now, ttl |-> ttl]]
    /\ UNCHANGED <<receiveMode, autoComplete, maxAutoRenewDurationInSeconds,
                   autoRenewLock>>
    /\ UNCHANGED <<settleVars, msgVars, linkVars>>

\* the sweep's interval timer fires
StoreSweep ==
    /\ requestResponseLockedMessages' =
           [requestResponseLockedMessages EXCEPT !.entries = ExpiringMapSweep(@)]
    /\ requestResponseLockedMessages' # requestResponseLockedMessages
    /\ UNCHANGED <<receiveMode, autoComplete, maxAutoRenewDurationInSeconds,
                   autoRenewLock>>
    /\ UNCHANGED <<settleVars, msgVars, linkVars>>

\* a caller asks get(k) and has(k)
StoreRead(k) ==
    LET es == requestResponseLockedMessages.entries IN
    /\ requestResponseLockedMessages' =
           [requestResponseLockedMessages EXCEPT
                !.read = [key |-> k, value |-> ExpiringMapGet(es, k),
                          has |-> ExpiringMapHas(es, k), at |-> now,
                          swept |-> ~es[k].present]]
    /\ UNCHANGED <<receiveMode, autoComplete, maxAutoRenewDurationInSeconds,
                   autoRenewLock>>
    /\ UNCHANGED <<settleVars, msgVars, linkVars>>

(***************************************************************************)
(* SpecSettle: settlement alone, no message in a handler                   *)
(***************************************************************************)
InitSettle ==
    /\ InitSettleVars
    /\ receiveMode = "peekLock"
    /\ autoComplete = FALSE
    /\ maxAutoRenewDurationInSeconds = 0
    /\ autoRenewLock = AutoRenewLock(receiveMode, maxAutoRenewDurationInSeconds)
    /\ now = 0
    /\ msg = [m \in DeliveryIds |-> NoMsg]
    /\ receiverType = "streaming"
    /\ streamingReceiver = "none"
    /\ batchingReceiver = "none"
    /\ InitLinkVars
    /\ requestResponseLockedMessages = NoStore

NextSettle ==
    \/ \E d \in DeliveryIds, op \in Operations, o \in DispositionOptions :
           UserSettle(d, op, o)
    \/ \E d \in DeliveryIds, s \in BOOLEAN, st \in RemoteStates :
           SettledEvent(d, s, st)
    \/ \E c \in CallIds : TimerFires(c)

SpecSettle == InitSettle /\ [][NextSettle]_vars

\* Node's event loop runs the callback of every timer that is not cleared.
FairSettle ==
    SpecSettle /\ \A c \in CallIds : WF_vars(TimerFires(c))

(***************************************************************************)
(* SpecMsg: messages arrive and are handled                                *)
(***************************************************************************)
InitMsg ==
    /\ InitSettleVars
    /\ Constructor
    /\ now = 0
    /\ msg = [m \in DeliveryIds |-> NoMsg]
    /\ receiverType = "streaming"
    /\ streamingReceiver = "none"
    /\ batchingReceiver = "none"
    /\ InitLinkVars
    /\ requestResponseLockedMessages = NoStore

NextMsg ==
    \/ \E m \in MsgIds : MessageArrives(m)
    \/ \E m \in MsgIds : HandlerReturns(m)
    \/ \E m \in MsgIds, err \in HandlerErrors : HandlerThrows(m, err)
    \/ \E m \in MsgIds : AutoSettleReturns(m)
    \/ \E m \in MsgIds : RenewTimerFires(m)
    \/ \E m \in MsgIds, ok \in BOOLEAN : RenewLockReturns(m, ok)
    \/ Tick
    \/ \E d \in MsgIds : UserSettle(d, "complete", NoOptions)
    \/ \E d \in MsgIds, s \in BOOLEAN, st \in RemoteStates :
           SettledEvent(d, s, st)
    \/ \E c \in CallIds : TimerFires(c)

SpecMsg == InitMsg /\ [][NextMsg]_vars

(***************************************************************************)
(* SpecTimely: SpecMsg on an event loop that is never late: a renewal      *)
(* timer's callback runs at the time it was set for                        *)
(***************************************************************************)
NextTimely ==
    \/ \E m \in MsgIds : MessageArrives(m)
    \/ \E m \in MsgIds : HandlerReturns(m)
    \/ \E m \in MsgIds, err \in HandlerErrors : HandlerThrows(m, err)
    \/ \E m \in MsgIds : AutoSettleReturns(m)
    \/ \E m \in MsgIds : RenewTimerFires(m)
    \/ \E m \in MsgIds, ok \in BOOLEAN : RenewLockReturns(m, ok)
    \/ TimelyTick
    \/ \E d \in MsgIds : UserSettle(d, "complete", NoOptions)
    \/ \E d \in MsgIds, s \in BOOLEAN, st \in RemoteStates :
           SettledEvent(d, s, st)
    \/ \E c \in CallIds : TimerFires(c)

SpecTimely == InitMsg /\ [][NextTimely]_vars

FairTimely == SpecTimely /\ \A m \in MsgIds : WF_vars(RenewTimerFires(m))

(***************************************************************************)
(* SpecLink: one receiver's link under open, close, detached and the       *)
(* transport's close events                                                *)
(***************************************************************************)
InitLink ==
    /\ InitSettleVars
    /\ receiveMode = "peekLock"
    /\ autoComplete = TRUE
    /\ maxAutoRenewDurationInSeconds = 0
    /\ autoRenewLock = FALSE
    /\ now = 0
    /\ msg = [m \in DeliveryIds |-> NoMsg]
    /\ receiverType \in ReceiverTypes
    /\ \E slot \in {"none", "other"} :
           /\ streamingReceiver = (IF receiverType = "streaming" THEN slot ELSE "none")
           /\ batchingReceiver = (IF receiverType = "batching" THEN slot ELSE "none")
    /\ InitLinkVars
    /\ requestResponseLockedMessages = NoStore

NextLink ==
    \/ Open
    \/ \E outcome \in Outcomes : OpenNegotiated(outcome)
    \/ \E outcome \in Outcomes : OpenCreated(outcome)
    \/ Close
    \/ CloseDone
    \/ \E l \in LinkIds, err \in ErrorKinds : RemoteLinkClose(l, err)
    \/ \E l \in LinkIds, err \in ErrorKinds : RemoteSessionClose(l, err)
    \/ \E err \in ErrorKinds : CtxDetached(err)
    \/ CtxBatchingDone
    \/ CtxStreamingDone
    \/ \E p \in DetIds : DetachedLinkClosed(p)
    \/ \E p \in DetIds, outcome \in Outcomes : DetachedNegotiated(p, outcome)
    \/ \E p \in DetIds, outcome \in Outcomes : DetachedCreated(p, outcome)
    \/ \E p \in DetIds : RetryDelayElapsed(p)

SpecLink == InitLink /\ [][NextLink]_vars

(***************************************************************************)
(* SpecRecover: the receiver's link under the transport's events alone:    *)
(* the application opens the receiver and does not call close(); every     *)
(* awaited promise settles and retry()'s delay timer fires                 *)
(***************************************************************************)
NextRecover ==
    \/ Open
    \/ \E outcome \in Outcomes : OpenNegotiated(outcome)
    \/ \E outcome \in Outcomes : OpenCreated(outcome)
    \/ \E l \in LinkIds, err \in ErrorKinds : RemoteLinkClose(l, err)
    \/ \E l \in LinkIds, err \in ErrorKinds : RemoteSessionClose(l, err)
    \/ \E p \in DetIds : DetachedLinkClosed(p)
    \/ \E p \in DetIds, outcome \in Outcomes : DetachedNegotiated(p, outcome)
    \/ \E p \in DetIds, outcome \in Outcomes : DetachedCreated(p, outcome)
    \/ \E p \in DetIds : RetryDelayElapsed(p)

SpecRecover == InitLink /\ [][NextRecover]_vars

FairRecover ==
    /\ SpecRecover
    /\ \A p \in DetIds :
           /\ WF_vars(DetachedLinkClosed(p))
           /\ WF_vars(\E outcome \in Outcomes : DetachedNegotiated(p, outcome))
           /\ WF_vars(\E outcome \in Outcomes : DetachedCreated(p, outcome))
           /\ WF_vars(RetryDelayElapsed(p))

(***************************************************************************)
(* SpecAccepting: SpecRecover with a transport that accepts an             *)
(* establishment attempt within the retry bound: an explicit open is       *)
(* accepted, and an attempt of a detached() run may fail, with a retryable *)
(* error, only while the run has a further attempt left                    *)
(***************************************************************************)
Accepts(p, outcome) ==
    \/ outcome = "ok"
    \/ outcome = "retryable" /\ dets[p].i + 1 < RetryTimes

\* the peer closes a link while the receiver may still create another one
LinkClosedByPeer(l, err) == nLinks < MaxLinks /\ RemoteLinkClose(l, err)

AcceptedNegotiated(p) ==
    \E outcome \in Outcomes : Accepts(p, outcome) /\ DetachedNegotiated(p, outcome)

AcceptedCreated(p) ==
    \E outcome \in Outcomes : Accepts(p, outcome) /\ DetachedCreated(p, outcome)

NextAccepting ==
    \/ Open
    \/ OpenNegotiated("ok")
    \/ OpenCreated("ok")
    \/ \E l \in LinkIds, err \in ErrorKinds : LinkClosedByPeer(l, err)
    \/ \E l \in LinkIds, err \in ErrorKinds : RemoteSessionClose(l, err)
    \/ \E p \in DetIds : DetachedLinkClosed(p)
    \/ \E p \in DetIds : AcceptedNegotiated(p)
    \/ \E p \in DetIds : AcceptedCreated(p)
    \/ \E p \in DetIds : RetryDelayElapsed(p)

SpecAccepting == InitLink /\ [][NextAccepting]_vars

FairAccepting ==
    /\ SpecAccepting
    /\ WF_vars(OpenNegotiated("ok"))
    /\ WF_vars(OpenCreated("ok"))
    /\ \A p \in DetIds :
           /\ WF_vars(DetachedLinkClosed(p))
           /\ WF_vars(AcceptedNegotiated(p))
           /\ WF_vars(AcceptedCreated(p))
           /\ WF_vars(RetryDelayElapsed(p))

(***************************************************************************)
(* SpecCtx: SpecRecover for a receiver whose Entity Context holds another  *)
(* receiver in the slot of the other role, with the Entity Context's       *)
(* detached(error)                                                         *)
(***************************************************************************)
InitCtx ==
    /\ InitSettleVars
    /\ receiveMode = "peekLock"
    /\ autoComplete = TRUE
    /\ maxAutoRenewDurationInSeconds = 0
    /\ autoRenewLock = FALSE
    /\ now = 0
    /\ msg = [m \in DeliveryIds |-> NoMsg]
    /\ receiverType \in ReceiverTypes
    /\ streamingReceiver = (IF receiverType = "streaming" THEN "none" ELSE "other")
    /\ batchingReceiver = (IF receiverType = "batching" THEN "none" ELSE "other")
    /\ InitLinkVars
    /\ requestResponseLockedMessages = NoStore

NextCtx ==
    \/ Open
    \/ \E outcome \in Outcomes : OpenNegotiated(outcome)
    \/ \E outcome \in Outcomes : OpenCreated(outcome)
    \/ \E l \in LinkIds, err \in ErrorKinds : RemoteLinkClose(l, err)
    \/ \E l \in LinkIds, err \in ErrorKinds : RemoteSessionClose(l, err)
    \/ \E err \in ErrorKinds : CtxDetached(err)
    \/ CtxBatchingDone
    \/ CtxStreamingDone
    \/ \E outcome \in OtherOutcomes : CtxOtherBatchingDone(outcome)
    \/ \E outcome \in OtherOutcomes : CtxOtherStreamingDone(outcome)
    \/ \E p \in DetIds : DetachedLinkClosed(p)
    \/ \E p \in DetIds, outcome \in Outcomes : DetachedNegotiated(p, outcome)
    \/ \E p \in DetIds, outcome \in Outcomes : DetachedCreated(p, outcome)
    \/ \E p \in DetIds : RetryDelayElapsed(p)

SpecCtx == InitCtx /\ [][NextCtx]_vars

(***************************************************************************)
(* SpecClose: a peek-lock receiver with auto-renewal is opened, receives   *)
(* messages on its link, and is closed and opened again by the application *)
(***************************************************************************)
\* the link's "message" event: deliveries come from an open link only
Delivery(m) == IsOpen(links) /\ MessageArrives(m)

InitClose ==
    /\ InitSettleVars
    /\ receiveMode = "peekLock"
    /\ autoComplete \in BOOLEAN
    /\ maxAutoRenewDurationInSeconds = RenewWindow
    /\ autoRenewLock = AutoRenewLock(receiveMode, maxAutoRenewDurationInSeconds)
    /\ now = 0
    /\ msg = [m \in DeliveryIds |-> NoMsg]
    /\ receiverType \in ReceiverTypes
    /\ streamingReceiver = "none"
    /\ batchingReceiver = "none"
    /\ InitLinkVars
    /\ requestResponseLockedMessages = NoStore

NextClose ==
    \/ Open
    \/ OpenNegotiated("ok")
    \/ OpenCreated("ok")
    \/ Close
    \/ CloseDone
    \/ \E m \in MsgIds : Delivery(m)
    \/ \E m \in MsgIds : HandlerReturns(m)
    \/ \E m \in MsgIds, err \in HandlerErrors : HandlerThrows(m, err)
    \/ \E m \in MsgIds : AutoSettleReturns(m)
    \/ \E m \in MsgIds : RenewTimerFires(m)
    \/ \E m \in MsgIds, ok \in BOOLEAN : RenewLockReturns(m, ok)
    \/ Tick
    \/ \E d \in MsgIds : UserSettle(d, "complete", NoOptions)
    \/ \E d \in MsgIds, s \in BOOLEAN, st \in RemoteStates :
           SettledEvent(d, s, st)
    \/ \E c \in CallIds : TimerFires(c)

SpecClose == InitClose /\ [][NextClose]_vars

(***************************************************************************)
(* SpecStore: the expiring map under set, get/has, the sweep and the clock *)
(***************************************************************************)
NextStore ==
    \/ \E k \in Keys, v \in Values, ttl \in Ttls : StoreSet(k, v, ttl)
    \/ \E k \in Keys : StoreRead(k)
    \/ StoreSweep
    \/ Tick

SpecStore == InitSettle /\ [][NextStore]_vars

(***************************************************************************)
(* Settlement properties                                                   *)
(***************************************************************************)
Made(c) == c <= nCalls

\* C1: a settleMessage whose operation is not complete, abandon, defer or
\* deadletter rejects its promise, and in that call issues no disposition,
\* adds no entry to _deliveryDispositionMap and starts no timer.
C1_InvalidOperationRejected ==
    (lastSettle.call # 0 /\ lastSettle.operation \notin DispositionType) =>
        LET c == lastSettle.call IN
        /\ calls[c].promise = "rejected"
        /\ calls[c].reason = "invalidOperation"
        /\ calls[c].issued = 0
        /\ lastSettle.frame = NoFrame
        /\ ~calls[c].registered
        /\ deliveryDispositionMap[calls[c].delivery] # c
        /\ ~calls[c].timerStarted
        /\ ~calls[c].timer

C1_Witness ==
    /\ lastSettle.operation = "bogus"
    /\ calls[lastSettle.call].promise = "rejected"
    /\ deliveryDispositionMap[calls[lastSettle.call].delivery] \notin {0, lastSettle.call}

\* C2: for every valid settleMessage call on delivery D, a settled
\* acknowledgement for D that arrives before the call's timeout cancels the
\* call's timer, removes its pending record, and resolves its promise when
\* the acknowledgement carries no error, rejects it when it carries one.
C2_AckSettlesCall ==
    \A c \in CallIds :
        (Made(c) /\ calls[c].ack \in {"accepted", "rejected"}) =>
            /\ ~calls[c].timer
            /\ deliveryDispositionMap[calls[c].delivery] # c
            /\ calls[c].promise =
                   IF calls[c].ack = "accepted" THEN "resolved" ELSE "rejected"

\* C3: a valid call that no acknowledgement settles is settled by its
\* timeout, which removes the pending record of the delivery and resolves
\* the promise; no promise is settled twice and none stays pending for ever.
C3_SettledOnce ==
    \A c \in CallIds :
        /\ calls[c].settles <= 1
        /\ calls[c].timedOut => (calls[c].promise = "resolved" /\ ~calls[c].timer)
        /\ (Made(c) /\ calls[c].promise = "pending") => calls[c].timer

C3_TimeoutRemovesRecord ==
    \A c \in CallIds :
        (~calls[c].timedOut /\ calls'[c].timedOut) =>
            /\ deliveryDispositionMap'[calls[c].delivery] = 0
            /\ calls[c].promise = "pending"
            /\ calls'[c].promise = "resolved"

C3_TimeoutResolvesExactlyOnce ==
    /\ []C3_SettledOnce
    /\ [][C3_TimeoutRemovesRecord]_vars
    /\ \A c \in CallIds :
          (calls[c].promise = "pending") ~> (calls[c].promise \in {"resolved", "rejected"})

C3_Witness ==
    \E c \in CallIds :
        /\ calls[c].timedOut
        /\ calls[c].ack = "none"
        /\ calls[c].promise = "resolved"
        /\ calls[c].settles = 1

\* C4: _deliveryDispositionMap holds at most one record per delivery, and a
\* settleMessage made for a delivery that already has a pending record is
\* rejected or awaits that record: it issues no second disposition.
C4_OneDispositionPerPendingDelivery ==
    /\ \A d \in DeliveryIds : deliveryDispositionMap[d] \in 0..nCalls
    /\ \A c \in CallIds :
          (Made(c) /\ calls[c].pendingBefore) =>
              /\ calls[c].issued = 0
              /\ ~calls[c].registered

\* C21: every valid settleMessage call registers its pending record and
\* issues exactly one disposition: complete -> accept; abandon -> modified
\* with undeliverable_here false; defer -> modified with undeliverable_here
\* true; deadletter -> reject with the given error or an empty one;
\* propertiesToModify, when given, goes as message_annotations for abandon
\* and defer only.
C21_OneDispositionPerValidCall ==
    (lastSettle.call # 0 /\ lastSettle.operation \in DispositionType) =>
        LET c == lastSettle.call
            op == lastSettle.operation
            o == lastSettle.options
            f == lastSettle.frame
        IN
        /\ calls[c].registered
        /\ calls[c].timerStarted
        /\ calls[c].issued = 1
        /\ op = "complete" =>
               /\ f.kind = "accept"
               /\ f.message_annotations = "none"
               /\ f.error = "none"
        /\ op = "abandon" =>
               /\ f.kind = "modified" /\ f.undeliverable_here = "false"
               /\ f.message_annotations = o.propertiesToModify
               /\ f.error = "none"
        /\ op = "defer" =>
               /\ f.kind = "modified" /\ f.undeliverable_here = "true"
               /\ f.message_annotations = o.propertiesToModify
               /\ f.error = "none"
        /\ op = "deadletter" =>
               /\ f.kind = "reject"
               /\ f.message_annotations = "none"
               /\ f.error = (IF o.error = "none" THEN "empty" ELSE o.error)

\* a defer with property overrides has been issued
C21_Witness ==
    /\ lastSettle.operation = "defer"
    /\ lastSettle.options.propertiesToModify = "props"
    /\ lastSettle.frame.undeliverable_here = "true"
    /\ lastSettle.frame.message_annotations = "props"
    /\ deliveryDispositionMap[calls[lastSettle.call].delivery] = lastSettle.call

(***************************************************************************)
(* Message handling properties                                             *)
(***************************************************************************)
AcceptFrame == DispositionFrame("complete", NoOptions)

AbandonFrame == DispositionFrame("abandon", NoOptions)

Count(seq, x) == Cardinality({i \in DOMAIN seq : seq[i] = x})

HandlerCompleted(m) == msg[m].outcome # "none"

AutoSettleFailed(m) ==
    /\ msg[m].pc = "done"
    /\ msg[m].call # 0
    /\ calls[msg[m].call].promise = "rejected"

\* C5: with auto-renew active, once the handler of a message has completed
\* no renewal timer fires and no renewLock call starts (none at all when the
\* handler completes before the first one), and the timer is cancelled
\* before the automatic complete or abandon is issued.
C5_NoRenewalAfterHandler ==
    \A m \in MsgIds :
        (autoRenewLock /\ HandlerCompleted(m)) =>
            /\ msg[m].timer = -1
            /\ ~msg[m].continueExecution
            /\ msg[m].renewLockCalls = msg[m].renewCallsAtDone
            /\ ~msg[m].timerAtSettle

C5_Witness ==
    \E m \in MsgIds :
        /\ autoRenewLock
        /\ msg[m].outcome = "returned"
        /\ msg[m].dispositions = <<AcceptFrame>>
        /\ msg[m].renewLockCalls = 0
        /\ now > msg[m].lockedUntilUtc - RenewMargin

\* C8: when the handler returns, the receiver issues exactly one complete
\* (an accept) iff autoComplete is on and the mode is peek-lock, never
\* before the handler returned; a failed complete reaches the error callback
\* once and is not retried.
C8_AutoCompleteOnSuccess ==
    \A m \in MsgIds :
        /\ msg[m].outcome = "none" => msg[m].dispositions = << >>
        /\ msg[m].outcome = "returned" =>
              /\ msg[m].dispositions =
                     IF autoComplete /\ receiveMode = "peekLock"
                     THEN <<AcceptFrame>> ELSE << >>
              /\ Count(msg[m].onErrorCalls, "abandonError") = 0
              /\ Count(msg[m].onErrorCalls, "completeError") =
                     IF AutoSettleFailed(m) THEN 1 ELSE 0

C8_Witness ==
    \E m \in MsgIds :
        /\ msg[m].outcome = "returned"
        /\ msg[m].dispositions = <<AcceptFrame>>
        /\ AutoSettleFailed(m)
        /\ msg[m].onErrorCalls = <<"completeError">>

\* C9: when the handler throws an error other than message-lock-lost, in
\* peek-lock mode the receiver issues exactly one abandon and no complete,
\* autoComplete or not, and a failed abandon reaches the error callback; in
\* receive-and-delete mode it issues nothing.
C9_AbandonOnFailure ==
    \A m \in MsgIds :
        msg[m].outcome = "threw" =>
            /\ msg[m].dispositions =
                   IF receiveMode = "peekLock" THEN <<AbandonFrame>> ELSE << >>
            /\ Count(msg[m].onErrorCalls, "completeError") = 0
            /\ Count(msg[m].onErrorCalls, "abandonError") =
                   IF AutoSettleFailed(m) THEN 1 ELSE 0

C9_Witness ==
    \E m \in MsgIds :
        /\ msg[m].outcome = "threw"
        /\ autoComplete
        /\ msg[m].dispositions = <<AbandonFrame>>
        /\ AutoSettleFailed(m)
        /\ msg[m].onErrorCalls = <<"abandonError">>

\* C10: when the handler throws a message-lock-lost error the receiver
\* issues no disposition for the message, and the error is forwarded to the
\* application's error callback.
C10_LockLostForwarded ==
    \A m \in MsgIds :
        (msg[m].outcome = "lockLost" /\ msg[m].pc = "done") =>
            /\ msg[m].dispositions = << >>
            /\ Count(msg[m].onErrorCalls, "handlerError") >= 1

C10_NoDispositionOnLockLost ==
    \A m \in MsgIds :
        msg[m].outcome = "lockLost" =>
            /\ msg[m].dispositions = << >>
            /\ msg[m].pc = "done"
            /\ msg[m].call = 0

(***************************************************************************)
(* Lock renewal properties                                                 *)
(***************************************************************************)
HandlerRunning(m) == msg[m].pc = "handler"

\* renewLock is called for m in this step
RenewLockCalled(m) == msg'[m].renewLockCalls = msg[m].renewLockCalls + 1

\* a renewLock call for m ends in this step
RenewLockEnded(m) == msg[m].renewing /\ ~msg'[m].renewing

\* while the handler runs, a scheduled renewal is set for a time before the
\* lock expires and is not overdue; the first one is scheduled on arrival
C11_ScheduledBeforeExpiry ==
    \A m \in MsgIds :
        /\ HandlerRunning(m) /\ msg[m].timer # -1 =>
               /\ msg[m].timer < msg[m].lockedUntilUtc
               /\ now <= msg[m].timer
        /\ autoRenewLock /\ HandlerRunning(m) /\ msg[m].renewLockCalls = 0 =>
               msg[m].timer # -1
        /\ msg[m].pc = "complete" => msg[m].outcome = "returned"
        /\ msg[m].outcome = "none" => msg[m].dispositions = << >>

\* renewLock is called before the lock expires, and a successful renewLock
\* reschedules while the handler runs and the deadline has not passed
C11_RenewedAndRescheduled ==
    \A m \in MsgIds :
        /\ RenewLockCalled(m) =>
               /\ HandlerRunning(m)
               /\ now < msg[m].lockedUntilUtc
        /\ (/\ RenewLockEnded(m)
            /\ msg'[m].lastRenew = "ok"
            /\ msg[m].continueExecution
            /\ now < msg[m].totalAutoLockRenewDuration) =>
               /\ msg'[m].timer # -1
               /\ msg'[m].timer < msg'[m].lockedUntilUtc

\* C11: with auto-renew active, while the handler still runs at the
\* scheduled renewal time (lock expiry minus the margin), renewLock is
\* invoked before the lock expires; renewal is rescheduled after each
\* successful renewLock while the handler keeps running; the automatic
\* complete is issued only after the handler returns.
C11_RenewedBeforeExpiry ==
    /\ []C11_ScheduledBeforeExpiry
    /\ [][C11_RenewedAndRescheduled]_vars
    /\ \A m \in MsgIds :
           (HandlerRunning(m) /\ msg[m].timer # -1 /\ now >= msg[m].timer)
               ~> (msg[m].renewing \/ ~HandlerRunning(m))

\* a renewLock succeeded while the handler runs and the next renewal is
\* scheduled
C11_Witness ==
    \E m \in MsgIds :
        /\ HandlerRunning(m)
        /\ msg[m].renewLockCalls = 1
        /\ msg[m].lastRenew = "ok"
        /\ msg[m].timer # -1

\* C19: renewLock is never called for a message at or after its total
\* renewal deadline (arrival time + maxAutoRenewDurationInSeconds).
C19_NoRenewalAtOrAfterDeadline ==
    [][\A m \in MsgIds :
           RenewLockCalled(m) => now < msg[m].totalAutoLockRenewDuration]_vars

\* C20: auto-renew is active exactly when the mode is peek-lock and the
\* window is greater than 0; while it is inactive no renewal timer is set and
\* renewLock is not called for any message; while it is active a timer is
\* set on the arrival of a message.
C20_AutoRenewIffPeekLockAndWindow ==
    /\ autoRenewLock = (receiveMode = "peekLock" /\ maxAutoRenewDurationInSeconds > 0)
    /\ ~autoRenewLock =>
           \A m \in MsgIds :
               /\ msg[m].timer = -1
               /\ ~msg[m].renewing
               /\ msg[m].renewLockCalls = 0
    /\ autoRenewLock =>
           \A m \in MsgIds :
               HandlerRunning(m) /\ msg[m].renewLockCalls = 0 => msg[m].timer # -1

\* peek-lock with a window of 0 or less: a handler runs past the expiry of
\* the lock and nothing has renewed it
C20_Witness ==
    \E m \in MsgIds :
        /\ receiveMode = "peekLock"
        /\ maxAutoRenewDurationInSeconds < 0
        /\ HandlerRunning(m)
        /\ now >= msg[m].lockedUntilUtc
        /\ msg[m].renewLockCalls = 0

\* the receiver issues the automatic complete or abandon of m in this step
AutoSettleIssued(m) == Len(msg'[m].dispositions) = Len(msg[m].dispositions) + 1

\* C23: when the automatic complete or abandon of a message is issued, no
\* renewLock call for that message is outstanding.
C23_SettlementNeverRacesRenewal ==
    [][\A m \in MsgIds : AutoSettleIssued(m) => ~msg[m].renewing]_vars

\* a renewLock call for the message of delivery m has just failed
RenewLockFailed(m) == RenewLockEnded(m) /\ msg'[m].lastRenew = "failed"

\* C17: when a renewLock call for a message fails, the error goes to the
\* application's error callback, no further renewal timer is set for that
\* message (and so no further renewLock call), and the receiver's link,
\* isConnecting, Entity Context slots and pending-settlement map stay as
\* they were.
C17_RenewalFailureStopsRenewal ==
    /\ [](\A m \in MsgIds :
              msg[m].lastRenew = "failed" =>
                  /\ msg[m].timer = -1
                  /\ ~msg[m].renewing
                  /\ Count(msg[m].onErrorCalls, "renewError") = 1)
    /\ [][\A m \in MsgIds :
              RenewLockFailed(m) =>
                  /\ msg'[m].onErrorCalls = Append(msg[m].onErrorCalls, "renewError")
                  /\ msg'[m].timer = -1
                  /\ UNCHANGED <<receiverLink, links, isConnecting, streamingReceiver,
                                 batchingReceiver, deliveryDispositionMap, calls>>]_vars

\* a renewal failed on an open receiver while the handler was running, the
\* handler is still running past the lock's expiry, and no timer is set
C17_Witness ==
    \E m \in MsgIds :
        /\ msg[m].lastRenew = "failed"
        /\ msg[m].pc = "handler"
        /\ msg[m].continueExecution
        /\ receiverLink # 0
        /\ now >= msg[m].lockedUntilUtc
        /\ msg[m].timer = -1

(***************************************************************************)
(* Link properties                                                         *)
(***************************************************************************)
\* the close was not initiated by this side, and there is no error or the
\* error is retryable
ReopenCondition(r) ==
    /\ ~r.selfClosed
    /\ (r.receiverError = "none" \/ Retryable(r.receiverError))

\* detached() run p decides: under the condition it hands _init to retry(),
\* which starts an establishment attempt unless the receiver is open or
\* connecting; otherwise it returns and changes nothing
C6_Decided(p) ==
    dets[p].pc = "closeLink" /\ dets'[p].pc # "closeLink" =>
        IF ReopenCondition(dets[p])
        THEN LET free == ~isConnecting /\ ~(receiverLink # 0 /\ links'[receiverLink].open)
             IN /\ lastInit'.called
                /\ lastInit'.started = free
                /\ dets'[p].pc = (IF free THEN "negotiate" ELSE "done")
                /\ free => isConnecting'
        ELSE /\ dets'[p].pc = "done"
             /\ UNCHANGED <<isConnecting, lastInit, name, receiverLink, nLinks>>

\* an establishment attempt of run p starts at its decision, the condition
\* holding, or after a retry delay of an attempt that started so
C6_Attempted(p) ==
    dets[p].pc # "negotiate" /\ dets'[p].pc = "negotiate" =>
        \/ dets[p].pc = "closeLink" /\ ReopenCondition(dets[p])
        \/ dets[p].pc = "delay"

\* C6: detached(error) attempts to re-establish the link if and only if the
\* close was not initiated by this side and (there is no error or the
\* translated error is retryable); for a non-retryable error and for a
\* self-initiated close it makes no establishment attempt.
C6_ReopenIffNotSelfClosedAndRetryable ==
    [][\A p \in DetIds : C6_Decided(p) /\ C6_Attempted(p)]_vars

\* the peer closes link l, or its session, in this step
LinkEventOn(l) == ~links[l].remoteClosed /\ links'[l].remoteClosed

SessionEventOn(l) == ~links[l].sessionRemoteClosed /\ links'[l].sessionRemoteClosed

\* an error is present and its translation is not retryable
Escalates(err) == err # "none" /\ ~Retryable(err)

EstablishedNow == nLinks' = nLinks + 1

\* C13: after a successful establishment the receiver is stored in the
\* Entity Context slot of its role only if that slot was empty; a slot that
\* holds a receiver is not overwritten, and nothing else writes the
\* receiver into a slot.
C13_RegisteredOnlyIfSlotEmpty ==
    [][/\ EstablishedNow =>
              /\ OwnSlot' = (IF OwnSlot = "none" THEN "this" ELSE OwnSlot)
              /\ OtherSlot' = OtherSlot
       /\ (OwnSlot' = "this" /\ OwnSlot # "this") => EstablishedNow
       /\ OtherSlot' # "this"]_vars

\* the receiver has an open link while the slot of its role still holds
\* the receiver that was registered first
C13_Witness ==
    /\ OwnSlot = "other"
    /\ receiverLink # 0
    /\ links[receiverLink].open

\* a detached() invocation starts in this step
DetachedInvoked == nDet' = nDet + 1

\* C14: close() never triggers reconnection: the receiver_close and
\* session_close events that follow the local close of a link closed by
\* close() do not invoke detached().
C14_CloseNeverReconnects ==
    [][\A l \in LinkIds :
           (/\ links[l].appClosed
            /\ \/ LinkEventOn(l) /\ links[l].closed
               \/ SessionEventOn(l) /\ links[l].sessionClosed)
               => ~DetachedInvoked]_vars

\* C16: the Entity Context's detached(error) invokes detached exactly once
\* on a receiver that is registered and not connecting, and not at all
\* otherwise: a registered streaming receiver is recovered and the batching
\* receiver is not recovered twice.
C16_EachEntityRecoveredOnce ==
    ctxCall.pc = "done" => ctxCall.runs = (IF ctxCall.present THEN 1 ELSE 0)

\* close() takes its first step
\* C22: on a receiver_close event detached() is invoked if and only if this
\* side had not closed the link and isConnecting is false; likewise on a
\* session_close event, with the session's closed state.
C22_DetachedIffRemoteCloseAndIdle ==
    [][\A l \in LinkIds :
           /\ LinkEventOn(l) =>
                  (DetachedInvoked <=> ~links[l].closed /\ ~isConnecting)
           /\ SessionEventOn(l) =>
                  (DetachedInvoked <=> ~links[l].sessionClosed /\ ~isConnecting)]_vars

\* the detached() run p goes on to reopen in this step: its options are made
ReopenDecided(p) == dets[p].pc = "closeLink" /\ dets'[p].optionsName # 0

\* the _init called by the detached() run p establishes a link in this step
ReopenSucceeds(p) == dets[p].pc = "createReceiver" /\ EstablishedNow

\* C24: a detached() run that reopens generates a new link name before its
\* first establishment attempt, different from the name of the link it
\* closed; and when its reopen succeeds, the receiver's name is the name of
\* the link that is open.
C24_ReopenUnderNewName ==
    [][\A p \in DetIds :
           /\ ReopenDecided(p) =>
                  /\ name' # name
                  /\ dets'[p].optionsName = name'
                  /\ \A l \in LinkIds : links[l].created => links[l].name # name'
           /\ ReopenSucceeds(p) =>
                  /\ links'[receiverLink'].name = dets[p].optionsName
                  /\ name' = links'[receiverLink'].name]_vars

\* an establishment attempt of the detached() run p fails in this step
AttemptFails(p) ==
    /\ dets[p].pc \in {"negotiate", "createReceiver"}
    /\ dets'[p].pc \in {"delay", "done"}
    /\ ~EstablishedNow

\* the detached() run p returns in this step
DetachedReturns(p) == dets[p].pc \notin {"idle", "done"} /\ dets'[p].pc = "done"

\* a detached() run makes at most RetryTimes attempts; a failed attempt
\* leaves the receiver closed; the run returns on the first success, on the
\* first failure that is not retryable and on the failure of the last
\* attempt, and its return changes nothing of the receiver
C25_BoundedAttempts ==
    [][\A p \in DetIds :
           /\ dets'[p].i < RetryTimes
           /\ AttemptFails(p) =>
                  /\ ~IsOpen(links')
                  /\ ~isConnecting'
                  /\ receiverLink' = receiverLink
           /\ ReopenSucceeds(p) => DetachedReturns(p)
           /\ (AttemptFails(p) /\ dets'[p].pc = "delay") => dets[p].i < RetryTimes
           /\ (dets[p].pc = "delay" /\ DetachedReturns(p)) =>
                  /\ \/ dets[p].i + 1 = RetryTimes
                     \/ lastInit'.called /\ ~lastInit'.started
                  /\ UNCHANGED <<receiverLink, links, isConnecting>>]_vars

Exhausted(p) ==
    /\ dets[p].pc = "delay"
    /\ dets[p].i + 1 = RetryTimes
    /\ DetachedReturns(p)

\* C26: when the reconnection attempts are exhausted and the receiver is
\* left closed, the application's error callback has been invoked for the
\* failure that led to the reconnection.
C26_ExhaustionNotified ==
    [][\A p \in DetIds :
           (Exhausted(p) /\ ~IsOpen(links') /\ ~isConnecting') =>
               linkErrors.notified]_vars

\* the peer closes the open link of the receiver in this step, with no
\* error or with a retryable one
RecoverableClose(l) ==
    /\ LinkEventOn(l)
    /\ l = receiverLink
    /\ links[l].open
    /\ linkErrors'.error = "none" \/ Retryable(linkErrors'.error)

\* the detached() run p was called for such a close and has not decided yet
\* (a further link can be created while nLinks < MaxLinks)
Recovering(p) ==
    /\ dets[p].pc = "closeLink"
    /\ dets[p].link # 0
    /\ links[dets[p].link].remoteClosed
    /\ ~dets[p].wasCloseInitiated
    /\ dets[p].receiverError = "none" \/ Retryable(dets[p].receiverError)

\* C27: when the peer closes the open link of the receiver with no error or
\* with a retryable error, the application does not call close() and the
\* transport accepts an establishment attempt within the retry bound, the
\* receiver eventually has an open link again, with isConnecting false.
C27_RecoversAfterRemoteClose ==
    /\ [][\A l \in LinkIds :
              RecoverableClose(l) =>
                  /\ DetachedInvoked
                  /\ dets'[nDet'].pc = "closeLink"
                  /\ dets'[nDet'].link = l
                  /\ ~dets'[nDet'].wasCloseInitiated
                  /\ dets'[nDet'].receiverError = linkErrors'.error]_vars
    /\ \A p \in DetIds :
           (Recovering(p) /\ nLinks < MaxLinks) ~> (IsOpen(links) /\ ~isConnecting)

\* the receiver holds a new open link, created under a name that a
\* detached() run generated, after the peer closed the earlier link
C27_Witness ==
    /\ IsOpen(links)
    /\ ~isConnecting
    /\ links[receiverLink].name # 0
    /\ \E l \in LinkIds : l # receiverLink /\ links[l].remoteClosed
    /\ lastInit.started
    /\ \E p \in DetIds : dets[p].pc = "done"

\* the links of this receiver that are open
OpenLinks == {l \in LinkIds : links[l].open}

\* C28: the receiver has at most one open link at any instant, and that
\* link is the one it holds: a new link is established only when the
\* previous one has been closed.
C28_AtMostOneOpenLink ==
    /\ Cardinality(OpenLinks) <= 1
    /\ \A l \in OpenLinks : l = receiverLink

\* a reconnection has replaced a link that the peer closed
C28_Witness ==
    /\ nLinks = MaxLinks
    /\ OpenLinks = {nLinks}
    /\ links[1].remoteClosed
    /\ links[1].closed
    /\ \E p \in DetIds : dets[p].pc = "done"

\* C30: once close() has been called the receiver stays closed until the
\* application opens it again: a detached() run whose establishment is the
\* latest _init call gives the receiver a link only while the receiver
\* still holds the link it replaces (receiverLink is 0 only after close()),
\* and does not register the receiver in the Entity Context.
C30_CloseNotUndone ==
    [][\A p \in DetIds :
           (ReopenSucceeds(p) /\ lastInit.started) =>
               /\ receiverLink # 0
               /\ OwnSlot' = OwnSlot]_vars

\* a detached() invocation between its call and its return
Running(p) == dets[p].pc \notin {"idle", "done"}

\* the receiver_close or session_close event of link l is handled in this step
CloseEventOn(l) == LinkEventOn(l) \/ SessionEventOn(l)

\* the _closeLink of the detached() that starts in this step closes the link
\* the receiver holds, a link that a detached() run had established
ClosesReopenedLink ==
    /\ receiverLink # 0
    /\ links[receiverLink].reopened
    /\ ~links[receiverLink].closed
    /\ links'[receiverLink].closed

\* C31: the detached() runs of one receiver never overlap: while a
\* detached() invocation is between its start and its return (its link-close
\* step and the delays between attempts included), a receiver_close or
\* session_close event does not start a second invocation; and an event of an
\* earlier link does not start a run that closes the link a detached() run
\* has established.
C31_DetachedRunsNeverOverlap ==
    [][\A l \in LinkIds :
           CloseEventOn(l) =>
               /\ (\E p \in DetIds : Running(p)) => ~DetachedInvoked
               /\ l < receiverLink => ~(DetachedInvoked /\ ClosesReopenedLink)]_vars

\* the Entity Context's detached(error) leaves its batching block in this
\* step: the block commented `streaming` runs
CtxStreamingBlockRuns == ctxCall.pc = "batching" /\ ctxCall'.pc # "batching"

\* the recovery the batching block awaited has failed
CtxRecoveryFailed == ctxCall'.outcome \in {"failed", "threw"}

\* this receiver is the streaming receiver of the context and is not connecting
StreamingRecoverable ==
    /\ receiverType = "streaming"
    /\ streamingReceiver = "this"
    /\ ~isConnecting

\* C32: in the Entity Context's detached(error) a failure while recovering
\* one entity does not prevent the recovery of the entities after it: when
\* the batching receiver's recovery has failed, detached() is still invoked
\* on a registered streaming receiver that is not connecting; a receiver
\* whose isConnecting is true is skipped; and the call does not reject: after
\* a rejected detached() it goes on to the next block or returns.
C32_FailureDoesNotStopLaterRecovery ==
    [][/\ (CtxStreamingBlockRuns /\ CtxRecoveryFailed /\ StreamingRecoverable)
            => DetachedInvoked
       /\ (ctxCall' # ctxCall /\ isConnecting) => ~DetachedInvoked
       /\ (ctxCall' # ctxCall /\ ctxCall'.outcome = "threw")
            => ctxCall'.pc \in {"streaming", "done"}]_vars

\* what the latest set of key k makes of the key at this time
Expected(k) ==
    LET w == requestResponseLockedMessages.written[k] IN
    IF w.set /\ now < w.at + w.ttl THEN w.value ELSE "absent"

\* C29: for every key, get and has report the entry as absent at or after
\* its expiry, swept or not, and before it report the value of the latest
\* set: a set on an existing key replaces the value and moves the expiry
\* to the time of the call plus the new ttl.
C29_ExpiredIsAbsentAndSetResets ==
    /\ [](\A k \in Keys :
              LET es == requestResponseLockedMessages.entries IN
              /\ ExpiringMapGet(es, k) = Expected(k)
              /\ ExpiringMapHas(es, k) = (Expected(k) # "absent"))
    /\ [][requestResponseLockedMessages'.read # requestResponseLockedMessages.read =>
              LET r == requestResponseLockedMessages'.read IN
              /\ r.value = Expected(r.key)
              /\ r.has = (Expected(r.key) # "absent")]_vars

\* the expiry of a key has passed, the sweep has not removed the entry,
\* and a get has just found the key absent
C29_Witness ==
    LET st == requestResponseLockedMessages IN
    \E k \in Keys :
        /\ st.read.key = k
        /\ st.read.at = now
        /\ ~st.read.swept
        /\ st.read.value = "absent"
        /\ st.entries[k].present
        /\ st.written[k].at > 0
        /\ now >= st.entries[k].expiry

\* close() has been called and the receiver has not been opened since
ReceiverClosed ==
    /\ receiverLink = 0
    /\ openCall.pc = "idle"
    /\ \E l \in LinkIds : links[l].appClosed

\* C15: after close() has been called no lock-renewal timer of a message
\* fires (no renewLock call is started), no settlement-timeout timer is left
\* running, and no pending-settlement record is left in the map.
C15_CloseCancelsTimers ==
    /\ [][ReceiverClosed => \A m \in MsgIds : ~RenewLockCalled(m)]_vars
    /\ [](ReceiverClosed =>
              /\ \A c \in CallIds : ~calls[c].timer
              /\ \A d \in DeliveryIds : deliveryDispositionMap[d] = 0)

CloseCalled == closeCall.pc = "idle" /\ closeCall'.pc = "closeLink"

\* C18: close() removes exactly this receiver's registration: it clears the
\* receiver's link handle and the slot of its role if the slot holds this
\* receiver; a slot that holds another receiver of the role is left as it
\* is.
C18_CloseRemovesOwnRegistration ==
    [][CloseCalled =>
           /\ receiverLink' = 0
           /\ OwnSlot' = (IF OwnSlot = "this" THEN "none" ELSE OwnSlot)
           /\ OtherSlot' = OtherSlot]_vars

\* C7: at most one establishment attempt (negotiation, then createReceiver)
\* is in flight at any instant; isConnecting is true throughout it; an _init
\* call made while the receiver is open or connecting starts no attempt and
\* leaves isConnecting as it was.
C7_OneEstablishmentInFlight ==
    /\ Cardinality(InFlight) <= 1
    /\ InFlight # {} => isConnecting
    /\ lastInit.called /\ (lastInit.wasOpen \/ lastInit.wasConnecting) =>
           /\ ~lastInit.started
           /\ lastInit.connectingAfter = lastInit.wasConnecting

\* an attempt is in flight and the latest _init call, made while it was, did
\* nothing
C7_Witness ==
    /\ InFlight # {}
    /\ lastInit.called
    /\ lastInit.wasConnecting
    /\ ~lastInit.started

====
